---- MODULE Spec2Model ----
(***************************************************************************)
(* Model of reactive/flannel.py, the reactive layer of the flannel charm.  *)
(*                                                                         *)
(* A Python str is a sequence of tokens.  The tokens " ", "\n", "'", "\"",  *)
(* "\\" and "v" are single characters; every other token is a run of       *)
(* characters that contains none of them.  Python's None is PyNone.        *)
(***************************************************************************)
EXTENDS Integers, Sequences, FiniteSets, TLC

VARIABLES
    flags,      \* flannel.* flags set by set_state / remove_state
    saved,      \* the flags as persisted when the current dispatch began
    ext,        \* flags owned by the etcd and cni interface layers
    fs,         \* filesystem: path -> content
    status,     \* message of the last status_set
    etcd,       \* etcd keyspace: key -> value
    running,    \* the flannel systemd service is running
    appVersion, \* last application_version_set
    phase,      \* "idle", "hooks" or "other" (reactive.dispatch.phase)
    queue,      \* handlers still to invoke in the current iteration
    pendingChg, \* flags changed during the current iteration
    stopping,   \* the stop hook has fired: the unit is being removed
    faults,     \* handler runs so far in which a command failed
    observe,    \* the history variables this specification records
    done,       \* history: steps that have completed at least once
    etcdSets,   \* history: number of etcdctl set invocations (saturating)
    cniCalls,   \* history: number of cni.set_available calls (saturating)
    steady      \* history: this dispatch began with status active and runs
                \* neither upgrade-charm nor stop

vars == <<flags, saved, ext, fs, status, etcd, running, appVersion, phase, queue,
          pendingChg, stopping, faults, observe, done, etcdSets, cniCalls, steady>>

(***************************************************************************)
(* Bounds of the model.                                                    *)
(***************************************************************************)
MaxCalls == 2

\* the commands of install_flannel_binaries that may fail: tar (0) and the
\* first MaxFailAt installs
MaxFailAt == 2

\* handler runs in which a command fails, over one execution
MaxFaults == 1

(***************************************************************************)
(* Python values and string operations used by the handlers.               *)
(***************************************************************************)
PyNone == <<"None">>

Truthy(x) == x # PyNone /\ x # <<>>

PyOr_unless_None(a, b) == IF a # PyNone THEN a ELSE b

\* a or b
PyOr(a, b) == IF Truthy(a) THEN a ELSE b

RECURSIVE Split(_, _)
Split(s, sep) ==
    IF s = <<>> THEN << <<>> >>
    ELSE LET r == Split(Tail(s), sep)
         IN  IF Head(s) = sep THEN << <<>> >> \o r
             ELSE << <<Head(s)>> \o r[1] >> \o Tail(r)

Whitespace == {" ", "\n"}

RECURSIVE LStrip(_)
LStrip(s) == IF s # <<>> /\ Head(s) \in Whitespace THEN LStrip(Tail(s)) ELSE s

RECURSIVE RStrip(_)
RStrip(s) ==
    IF s # <<>> /\ s[Len(s)] \in Whitespace
    THEN RStrip(SubSeq(s, 1, Len(s) - 1)) ELSE s

Strip_none(s) == s

Strip(s) == RStrip(LStrip(s))

\* tokens in which the substring 'default' occurs
DefaultTokens == {"default", "default-gw"}

Contains_default(line) == \E i \in 1..Len(line) : line[i] \in DefaultTokens

RECURSIVE FirstDefault(_)
FirstDefault(lines) ==
    IF lines = <<>> THEN PyNone
    ELSE IF Contains_default(Head(lines))
         THEN LET parts == Split(Head(lines), " ") IN parts[Len(parts)]
         ELSE FirstDefault(Tail(lines))

default_interface(output) == FirstDefault(Split(output, "\n"))


(***************************************************************************)
(* json.dumps of the dict built at lines 104-109, str.format and           *)
(* shlex.split as used by configure_network.                               *)
(***************************************************************************)
RECURSIVE JsonEscape(_)
JsonEscape(s) ==
    IF s = <<>> THEN <<>>
    ELSE (IF Head(s) \in {"\"", "\\"} THEN <<"\\", Head(s)>> ELSE <<Head(s)>>)
         \o JsonEscape(Tail(s))

JsonStr(s) == <<"\"">> \o JsonEscape(s) \o <<"\"">>

JsonValue(x) == IF x = PyNone THEN <<"null">> ELSE JsonStr(x)

json_dumps(network) ==
    <<"{">> \o JsonStr(<<"Network">>) \o <<":", " ">> \o JsonValue(network)
    \o <<",", " ">> \o JsonStr(<<"Backend">>) \o <<":", " ", "{">>
    \o JsonStr(<<"Type">>) \o <<":", " ">> \o JsonStr(<<"vxlan">>)
    \o <<"}", "}">>

ShlexError == [ok |-> FALSE, argv |-> <<>>]

RECURSIVE ShlexRec(_, _, _, _, _)
ShlexRec(s, mode, cur, inword, acc) ==
    IF s = <<>>
    THEN IF mode # "n" THEN ShlexError
         ELSE [ok |-> TRUE, argv |-> IF inword THEN Append(acc, cur) ELSE acc]
    ELSE LET c == Head(s)
             r == Tail(s)
         IN  CASE mode = "n" /\ c \in Whitespace ->
                    ShlexRec(r, "n", <<>>, FALSE,
                             IF inword THEN Append(acc, cur) ELSE acc)
               [] mode = "n" /\ c = "'" -> ShlexRec(r, "s", cur, TRUE, acc)
               [] mode = "n" /\ c = "\"" -> ShlexRec(r, "d", cur, TRUE, acc)
               [] mode = "n" /\ c = "\\" ->
                    IF r = <<>> THEN ShlexError
                    ELSE ShlexRec(Tail(r), "n", Append(cur, Head(r)), TRUE, acc)
               [] mode = "s" /\ c = "'" -> ShlexRec(r, "n", cur, TRUE, acc)
               [] mode = "d" /\ c = "\"" -> ShlexRec(r, "n", cur, TRUE, acc)
               [] mode = "d" /\ c = "\\" /\ r # <<>> /\ Head(r) \in {"\"", "\\"} ->
                    ShlexRec(Tail(r), "d", Append(cur, Head(r)), TRUE, acc)
               [] OTHER -> ShlexRec(r, mode, Append(cur, c), TRUE, acc)

\* shlex.split(cmd): a word of argv is again a sequence of tokens
split(cmd) == ShlexRec(cmd, "n", <<>>, FALSE, <<>>)

(***************************************************************************)
(* Paths, flags and messages of the source.                                *)
(***************************************************************************)
ETCD_PATH == "/etc/ssl/flannel"
ETCD_KEY_PATH == "/etc/ssl/flannel/client-key.pem"
ETCD_CERT_PATH == "/etc/ssl/flannel/client-cert.pem"
ETCD_CA_PATH == "/etc/ssl/flannel/client-ca.pem"

FLANNELD == "/usr/local/bin/flanneld"
ETCDCTL == "/usr/local/bin/etcdctl"
UNPACK_PATH == "$CHARM_DIR/files/flannel"
CNI_CONF == "/etc/cni/net.d/10-flannel.conf"
SERVICE_FILE == "/lib/systemd/system/flannel.service"
OLD_UNIT_FILE == "/lib/systemd/system/flannel"
SUBNET_ENV == "/var/run/flannel/subnet.env"
NETWORK_KEY == "/coreos.com/network/config"

\* the key as one word of an argv
NetworkKey == <<NETWORK_KEY>>

\* the apps list of install_flannel_binaries, as install destinations
apps == <<FLANNELD, ETCDCTL, "/opt/cni/bin/flannel", "/opt/cni/bin/bridge",
          "/opt/cni/bin/host-local">>

\* the files list of cleanup_deployment
files == <<FLANNELD, OLD_UNIT_FILE, SERVICE_FILE, ETCD_KEY_PATH,
           ETCD_CERT_PATH, ETCD_CA_PATH, SUBNET_ENV>>

BINARIES == "flannel.binaries.installed"
CNI_CONFIGURED == "flannel.cni.configured"
CREDENTIALS == "flannel.etcd.credentials.installed"
SERVICE_INSTALLED == "flannel.service.installed"
NETWORK_CONFIGURED == "flannel.network.configured"
SERVICE_STARTED == "flannel.service.started"
CNI_AVAILABLE == "flannel.cni.available"
VERSION_SET == "flannel.version.set"

FlannelFlags == {BINARIES, CNI_CONFIGURED, CREDENTIALS, SERVICE_INSTALLED,
                 NETWORK_CONFIGURED, SERVICE_STARTED, CNI_AVAILABLE, VERSION_SET}

IS_WORKER == "cni.is-worker"
IS_MASTER == "cni.is-master"
ETCD_CONNECTED == "etcd.connected"
ETCD_TLS == "etcd.tls.available"
ETCD_AVAILABLE == "etcd.available"

MsgFetchError == "Error fetching the flannel resource."
MsgMissing == "Missing flannel resource."
MsgIncomplete == "Incomplete flannel resource"
MsgUnpacking == "Unpacking flannel resource."
MsgInstalling == "Installing flannel service."
MsgStarting == "Starting flannel service."
MsgVersion == "Setting flannel version."
MsgActive == "Flannel is active."
MsgWaiting == "Waiting for etcd relation."
MsgNone == ""

\* the workload state each status_set call of the source passes with its message
StatusState(msg) ==
    CASE msg \in {MsgFetchError, MsgMissing, MsgIncomplete} -> "blocked"
      [] msg \in {MsgUnpacking, MsgInstalling, MsgStarting, MsgVersion} -> "maintenance"
      [] msg = MsgActive -> "active"
      [] msg = MsgWaiting -> "waiting"
      [] OTHER -> "unknown"


(***************************************************************************)
(* What the handlers read from their environment.                          *)
(***************************************************************************)
\* resource_get('flannel'): the path returned, the size os.stat reports for
\* it and the build of flanneld that the archive holds
NoResource == [archive |-> <<>>, size |-> 0, build |-> ""]

MinResourceSize_over == 1000000 + 1

\* the size below which line 36 calls the resource incomplete
MinResourceSize == 1000000

Resources ==
    { NoResource,
      [archive |-> <<"flannel.tar.gz">>, size |-> 999999, build |-> "U"],
      [archive |-> <<"flannel.tar.gz">>, size |-> 1000000, build |-> "A"] }

\* what `flanneld -version` of a build prints
VersionOutput(build) ==
    CASE build = "A" -> <<"v", "0.5.5", "\n">>
      [] build = "B" -> <<"re", "v", " ", "v", "0.7.0", "\n">>
      [] build = "D" -> <<" ", "v", "0.8.0-de", "v", "\n">>
      [] build = "N" -> <<"0.4.0", " ", "\n">>
      [] build = "W" -> <<"\n">>
      [] OTHER -> <<>>

\* the resources that install_flannel_binaries accepts
GoodResources == { r \in Resources : Truthy(r.archive) /\ r.size >= MinResourceSize }

\* valid resources, one of them with a flanneld that prints no version
ValidResources ==
    GoodResources \cup
    { [archive |-> <<"flannel.tar.gz">>, size |-> 1000001, build |-> "E"] }

\* valid resources with the builds of flanneld that VersionOutput tells apart
VersionResources ==
    { [archive |-> <<"flannel.tar.gz">>, size |-> 1000001, build |-> b] :
        b \in {"A", "B", "D", "N", "W", "E"} }

\* config('cidr'): in the lifecycle specifications, and the strings an
\* operator can set it to
CidrValues == { <<"10.1.0.0/16">> }

CidrInputs ==
    { PyNone, <<>>, <<"10.1.0.0/16">>, <<"192.168.0.0/24">>,
      <<"10.1.0.0/16", " ">>, <<"10.1.0.0/16", "'">>, <<"10.1.0.0/16", "'", "'">>,
      <<"'", "10.1.0.0/16", "'">>, <<"\"", "10.1.0.0/16", "\"">>,
      <<"10.1.0.0/16", "\\">> }

\* config('iface')
IfaceValues == { PyNone }

IfaceInputs == { PyNone, <<>>, <<"eth1">>, <<"default">> }

\* the output of `route`
RouteOutputs ==
    { <<"Destination", " ", "Iface", "\n",
        "default", " ", "gateway", " ", "eth0", "\n",
        "10.0.0.0", " ", "*", " ", "eth2", "\n">> }

RouteInputs ==
    RouteOutputs \cup
    { <<>>,
      <<"Destination", " ", "Iface", "\n", "10.0.0.0", " ", "*", " ", "eth2", "\n">>,
      <<"default", " ", "gateway", " ", "eth0">>,
      <<"default", " ", "gateway", " ", "eth0", " ", "\n">>,
      <<"default", " ", " ", "wlan0", "\n", "default", " ", "gateway", " ", "eth0", "\n">>,
      <<"10.0.0.0", " ", "default-gw", " ", "eth2", "\n",
        "default", " ", "gateway", " ", "eth0", "\n">>,
      <<"default", "\n">>,
      <<"Destination", " ", "Iface", "\n", "default", " ", "gateway", " ", "tun0", "\n">> }

\* where install_flannel_binaries can fail; Len(apps) + 1: nowhere
FailPoints == (0..MaxFailAt) \cup {Len(apps) + 1}

\* etcd.get_connection_string()
ConnectionStrings == { <<"https://10.0.0.1:2379">> }

(***************************************************************************)
(* The handler bodies, as functions of the state they read and write.      *)
(* s.cmds lists the external commands the body has run, s.raised tells     *)
(* that an exception left the handler.                                     *)
(***************************************************************************)
Put(f, k, v) == [x \in DOMAIN f \cup {k} |-> IF x = k THEN v ELSE f[x]]

Remove(f, ks) == [x \in DOMAIN f \ ks |-> f[x]]

Exists(f, k) == k \in DOMAIN f

Bump(n) == IF n < MaxCalls THEN n + 1 ELSE n

set_state(s, flag) == [s EXCEPT !.flags = @ \cup {flag}]

remove_state(s, flag) == [s EXCEPT !.flags = @ \ {flag}]

status_set(s, msg) == [s EXCEPT !.status = msg]

Ran(s, cmd) == [s EXCEPT !.cmds = Append(@, cmd)]

Raise_reported(s) == [s EXCEPT !.status = MsgFetchError]

\* an exception leaves the handler
Raise(s) == [s EXCEPT !.raised = TRUE]

\* the for loop of lines 55-59: install apps[i..] until the install that fails
RECURSIVE InstallApps(_, _, _, _)
InstallApps(s, i, build, failAt) ==
    IF i > Len(apps) THEN s
    ELSE LET t == Ran(s, <<"install", apps[i]>>)
         IN  IF i = failAt THEN Raise(t)
             ELSE InstallApps([t EXCEPT !.fs = Put(@, apps[i], build)],
                              i + 1, build, failAt)

\* failAt = 0: tar fails; failAt = i in 1..Len(apps): the i-th install fails;
\* failAt > Len(apps): every command succeeds
install_flannel_binaries_body(s, fetchOk, res, failAt) ==
    IF ~fetchOk THEN status_set(s, MsgFetchError)
    ELSE IF ~Truthy(res.archive) THEN status_set(s, MsgMissing)
    ELSE IF res.size < MinResourceSize THEN status_set(s, MsgIncomplete)
    ELSE LET s1 == Ran(status_set(s, MsgUnpacking), <<"tar", "xfz">>)
         IN  IF failAt = 0 THEN Raise(s1)
             ELSE LET s2 == InstallApps([s1 EXCEPT !.fs = Put(@, UNPACK_PATH, res.build)],
                                        1, res.build, failAt)
                  IN  IF s2.raised THEN s2 ELSE set_state(s2, BINARIES)

configure_cni_body_appending(s) ==
    set_state([s EXCEPT !.fs = Put(@, CNI_CONF, IF Exists(@, CNI_CONF)
                                                THEN "10-flannel.conf 10-flannel.conf"
                                                ELSE "10-flannel.conf")],
              CNI_CONFIGURED)

configure_cni_body(s) ==
    set_state([s EXCEPT !.fs = Put(@, CNI_CONF, "10-flannel.conf")], CNI_CONFIGURED)

install_etcd_credentials_body(s) ==
    set_state([s EXCEPT !.fs = Put(Put(Put(@, ETCD_KEY_PATH, "key"),
                                       ETCD_CERT_PATH, "cert"),
                                   ETCD_CA_PATH, "ca")],
              CREDENTIALS)

install_flannel_service_body(s, ifaceCfg, routeOk, output, conn) ==
    LET s1 == Ran(status_set(s, MsgInstalling), <<"route">>)
    IN  IF ~routeOk THEN Raise(s1)
        ELSE LET context == [iface |-> PyOr(ifaceCfg, default_interface(output)),
                             connection_string |-> conn,
                             cert_path |-> ETCD_PATH]
             IN  set_state([s1 EXCEPT !.fs = Put(@, SERVICE_FILE, context)],
                           SERVICE_INSTALLED)

\* the command string built at lines 110-115
etcdctl_cmd(conn, data) ==
    <<"etcdctl", " ", "--endpoint", " ", "'">> \o conn \o <<"'", " ">>
    \o <<"--cert-file", " ", ETCD_CERT_PATH, " ">>
    \o <<"--key-file", " ", ETCD_KEY_PATH, " ">>
    \o <<"--ca-file", " ", ETCD_CA_PATH, " ">>
    \o <<"set", " ", NETWORK_KEY, " ", "'">> \o data \o <<"'">>

\* position of the `set` subcommand in argv, 0 if there is none
SetIndex(argv) ==
    IF \E i \in 1..Len(argv) : argv[i] = <<"set">>
    THEN CHOOSE i \in 1..Len(argv) :
            /\ argv[i] = <<"set">>
            /\ \A j \in 1..(i - 1) : argv[j] # <<"set">>
    ELSE 0

\* etcdctl ... set <key> <value>: the write argv asks for, once it succeeds
etcdctl_set(kv, argv) ==
    LET i == SetIndex(argv) IN Put(kv, argv[i + 1], argv[i + 2])

configure_network_body(s, cidr, conn, etcdctlOk) ==
    LET data == json_dumps(cidr)
        sp == split(etcdctl_cmd(conn, data))
    IN  IF ~sp.ok THEN Raise(s)
        ELSE LET i == SetIndex(sp.argv)
                 s1 == [Ran(s, <<"etcdctl", "set">>) EXCEPT
                            !.etcdSets = IF i > 0 THEN Bump(@) ELSE @]
             IN  IF \/ ~etcdctlOk
                    \/ ~Exists(s.fs, ETCDCTL)
                    \/ {ETCD_CERT_PATH, ETCD_KEY_PATH, ETCD_CA_PATH} \ DOMAIN s.fs # {}
                    \/ i = 0
                    \/ Len(sp.argv) < i + 2
                 THEN Raise(s1)
                 ELSE set_state([s1 EXCEPT !.etcd = etcdctl_set(@, sp.argv)],
                                NETWORK_CONFIGURED)

\* service_start returns False when systemd cannot start the unit; the
\* running daemon writes its lease to subnet.env
start_flannel_service_body(s, startOk) ==
    LET up == startOk /\ Exists(s.fs, FLANNELD) /\ Exists(s.fs, SERVICE_FILE)
        s1 == Ran(status_set(s, MsgStarting), <<"service", "start", "flannel">>)
        s2 == [s1 EXCEPT !.running = @ \/ up,
                         !.fs = IF up THEN Put(@, SUBNET_ENV, "lease") ELSE @]
    IN  set_state(s2, SERVICE_STARTED)

set_available_body(s) ==
    set_state([Ran(s, <<"cni.set_available">>) EXCEPT !.cniCalls = Bump(@)],
              CNI_AVAILABLE)

set_flannel_version_body(s, versionOk) ==
    LET s1 == Ran(status_set(s, MsgVersion), <<"flanneld", "-version">>)
    IN  IF ~versionOk \/ ~Exists(s.fs, FLANNELD) THEN Raise(s1)
        ELSE LET version == VersionOutput(s.fs[FLANNELD])
                 parts == Split(version, "v")
             IN  IF version # <<>>
                 THEN set_state([s1 EXCEPT !.appVersion = Strip(parts[Len(parts)])],
                                VERSION_SET)
                 ELSE s1

ready_body(s) == status_set(s, MsgActive)

halt_execution_body(s) == status_set(s, MsgWaiting)

reset_states_and_redeploy_body_version(s) ==
    remove_state(remove_state(s, BINARIES), VERSION_SET)

reset_states_and_redeploy_body(s) == remove_state(s, BINARIES)

\* the for loop of lines 188-191
RECURSIVE RemoveFiles(_, _)
RemoveFiles(s, i) ==
    IF i > Len(files) THEN s
    ELSE IF Exists(s.fs, files[i])
         THEN RemoveFiles([Ran(s, <<"remove", files[i]>>) EXCEPT
                               !.fs = Remove(@, {files[i]})], i + 1)
         ELSE RemoveFiles(s, i + 1)

cleanup_deployment_body_deleting(s, downOk, deleteOk) ==
    LET s1 == [Ran(s, <<"service", "stop", "flannel">>) EXCEPT !.running = FALSE]
        s2 == Ran(s1, <<"ip", "link", "set", "flannel.1", "down">>)
        s3 == Ran(s2, <<"ip", "link", "delete", "flannel.1">>)
    IN  RemoveFiles(s3, 1)

cleanup_deployment_body(s, downOk, deleteOk) ==
    LET s1 == [Ran(s, <<"service", "stop", "flannel">>) EXCEPT !.running = FALSE]
        s2 == Ran(s1, <<"ip", "link", "set", "flannel.1", "down">>)
        s3 == IF downOk THEN Ran(s2, <<"ip", "link", "delete", "flannel.1">>) ELSE s2
    IN  RemoveFiles(s3, 1)


(***************************************************************************)
(* The decorators: the flags each handler requires, forbids and watches.   *)
(***************************************************************************)
Handlers == {"install_flannel_binaries", "configure_cni", "install_etcd_credentials",
             "install_flannel_service", "configure_network", "start_flannel_service",
             "set_available", "set_flannel_version", "ready", "halt_execution"}

HookHandlers == {"reset_states_and_redeploy", "cleanup_deployment"}

when_start_unseeded(h) ==
    CASE h = "configure_cni" -> {IS_WORKER}
      [] h = "install_etcd_credentials" -> {ETCD_TLS}
      [] h = "install_flannel_service" -> {BINARIES, CREDENTIALS, ETCD_AVAILABLE}
      [] h = "configure_network" -> {BINARIES, CREDENTIALS, ETCD_AVAILABLE}
      [] h = "start_flannel_service" -> {BINARIES, SERVICE_INSTALLED}
      [] h = "set_available" -> {SERVICE_STARTED, IS_WORKER}
      [] h = "set_flannel_version" -> {BINARIES}
      [] h = "ready" -> {SERVICE_STARTED}
      [] OTHER -> {}

when_available_unstarted(h) ==
    CASE h = "configure_cni" -> {IS_WORKER}
      [] h = "install_etcd_credentials" -> {ETCD_TLS}
      [] h = "install_flannel_service" -> {BINARIES, CREDENTIALS, ETCD_AVAILABLE}
      [] h = "configure_network" -> {BINARIES, CREDENTIALS, ETCD_AVAILABLE}
      [] h = "start_flannel_service" -> {BINARIES, SERVICE_INSTALLED, NETWORK_CONFIGURED}
      [] h = "set_available" -> {IS_WORKER}
      [] h = "set_flannel_version" -> {BINARIES}
      [] h = "ready" -> {SERVICE_STARTED}
      [] OTHER -> {}

when_available_any_role(h) ==
    CASE h = "configure_cni" -> {IS_WORKER}
      [] h = "install_etcd_credentials" -> {ETCD_TLS}
      [] h = "install_flannel_service" -> {BINARIES, CREDENTIALS, ETCD_AVAILABLE}
      [] h = "configure_network" -> {BINARIES, CREDENTIALS, ETCD_AVAILABLE}
      [] h = "start_flannel_service" -> {BINARIES, SERVICE_INSTALLED, NETWORK_CONFIGURED}
      [] h = "set_available" -> {SERVICE_STARTED}
      [] h = "set_flannel_version" -> {BINARIES}
      [] h = "ready" -> {SERVICE_STARTED}
      [] OTHER -> {}

\* @when
when(h) ==
    CASE h = "configure_cni" -> {IS_WORKER}
      [] h = "install_etcd_credentials" -> {ETCD_TLS}
      [] h = "install_flannel_service" -> {BINARIES, CREDENTIALS, ETCD_AVAILABLE}
      [] h = "configure_network" -> {BINARIES, CREDENTIALS, ETCD_AVAILABLE}
      [] h = "start_flannel_service" -> {BINARIES, SERVICE_INSTALLED, NETWORK_CONFIGURED}
      [] h = "set_available" -> {SERVICE_STARTED, IS_WORKER}
      [] h = "set_flannel_version" -> {BINARIES}
      [] h = "ready" -> {SERVICE_STARTED}
      [] OTHER -> {}

when_not_network_ungated(h) ==
    CASE h = "install_flannel_binaries" -> {BINARIES}
      [] h = "configure_cni" -> {CNI_CONFIGURED}
      [] h = "install_etcd_credentials" -> {CREDENTIALS}
      [] h = "install_flannel_service" -> {SERVICE_INSTALLED}
      [] h = "start_flannel_service" -> {SERVICE_STARTED}
      [] h = "set_available" -> {CNI_AVAILABLE}
      [] h = "set_flannel_version" -> {VERSION_SET}
      [] h = "halt_execution" -> {ETCD_CONNECTED}
      [] OTHER -> {}

\* @when_not
when_not(h) ==
    CASE h = "install_flannel_binaries" -> {BINARIES}
      [] h = "configure_cni" -> {CNI_CONFIGURED}
      [] h = "install_etcd_credentials" -> {CREDENTIALS}
      [] h = "install_flannel_service" -> {SERVICE_INSTALLED}
      [] h = "configure_network" -> {NETWORK_CONFIGURED}
      [] h = "start_flannel_service" -> {SERVICE_STARTED}
      [] h = "set_available" -> {CNI_AVAILABLE}
      [] h = "set_flannel_version" -> {VERSION_SET}
      [] h = "halt_execution" -> {ETCD_CONNECTED}
      [] OTHER -> {}

\* @when_any
when_any(h) ==
    CASE h = "ready" -> {IS_MASTER, CNI_AVAILABLE}
      [] OTHER -> {}

\* @hook
hook_of(h) ==
    CASE h = "reset_states_and_redeploy" -> "upgrade-charm"
      [] h = "cleanup_deployment" -> "stop"
      [] OTHER -> ""

\* the predicates of a handler on the set F of active flags
Guard(h, F) ==
    /\ when(h) \subseteq F
    /\ when_not(h) \cap F = {}
    /\ when_any(h) # {} => when_any(h) \cap F # {}

Watched(h) == when(h) \cup when_not(h) \cup when_any(h)

\* the handlers an iteration of the dispatch loop invokes when F are the
\* active flags: in the first iteration every handler whose predicates hold,
\* later only those that also watch a flag changed by the iteration before
Matching(F, first, changed) ==
    { h \in Handlers : Guard(h, F) /\ (first \/ Watched(h) \cap changed # {}) }

ToInvoke == Matching(flags \cup ext, FALSE, pendingChg)

(***************************************************************************)
(* The state machine.                                                      *)
(***************************************************************************)
Hooks == {"upgrade-charm", "stop", "update-status"}

ExtFlags == {IS_WORKER, IS_MASTER, ETCD_CONNECTED, ETCD_TLS, ETCD_AVAILABLE}

\* the flags the interface layers can have raised: a cni relation is to a
\* master or to a worker, and etcd data comes over a connected relation
ExtStates ==
    { e \in SUBSET ExtFlags :
        /\ ~({IS_WORKER, IS_MASTER} \subseteq e)
        /\ e \cap {ETCD_TLS, ETCD_AVAILABLE} # {} => ETCD_CONNECTED \in e }

Empty == [x \in {} |-> x]

InitObserving(obs) ==
    /\ flags = {}
    /\ saved = {}
    /\ ext = {}
    /\ fs = Empty
    /\ status = MsgNone
    /\ etcd = Empty
    /\ running = FALSE
    /\ appVersion = PyNone
    /\ phase = "idle"
    /\ queue = {}
    /\ pendingChg = {}
    /\ stopping = FALSE
    /\ faults = 0
    /\ observe = obs
    /\ done = {}
    /\ etcdSets = 0
    /\ cniCalls = 0
    /\ steady = FALSE

Init == InitObserving({})

\* the state as the handler bodies see it
Cur == [flags |-> flags, fs |-> fs, status |-> status, etcd |-> etcd,
        running |-> running, appVersion |-> appVersion, etcdSets |-> etcdSets,
        cniCalls |-> cniCalls, cmds |-> <<>>, raised |-> FALSE]

\* Juju runs a hook: the hook phase invokes the handlers of this hook.  stop
\* is the last hook of a unit
BeginDispatch(hk) ==
    /\ phase = "idle"
    /\ ~stopping
    /\ phase' = "hooks"
    /\ stopping' = (hk = "stop")
    /\ saved' = flags
    /\ steady' = /\ "steady" \in observe
                 /\ status = MsgActive
                 /\ hk \notin {"upgrade-charm", "stop"}
    /\ queue' = {h \in HookHandlers : hook_of(h) = hk}
    /\ pendingChg' = {}
    /\ UNCHANGED <<flags, ext, fs, status, etcd, running, appVersion, faults,
                   observe, done, etcdSets, cniCalls>>

\* handler h, queued for this iteration, runs and leaves the state r; fault
\* tells that a command of it failed.  An exception out of a handler ends the
\* dispatch: the hook fails, and the flags set since it began are persisted
\* or not
Invoke(h, r, fault) ==
    /\ phase \in {"hooks", "other"}
    /\ h \in queue
    /\ fault => faults < MaxFaults
    /\ faults' = IF fault THEN faults + 1 ELSE faults
    /\ fs' = r.fs
    /\ status' = r.status
    /\ etcd' = r.etcd
    /\ running' = r.running
    /\ appVersion' = r.appVersion
    /\ etcdSets' = IF "etcdSets" \in observe THEN r.etcdSets ELSE etcdSets
    /\ cniCalls' = IF "cniCalls" \in observe THEN r.cniCalls ELSE cniCalls
    /\ done' = IF "done" \in observe THEN done \cup (r.flags \ flags) ELSE done
    /\ IF r.raised
       THEN /\ \E keep \in BOOLEAN : flags' = IF keep THEN r.flags ELSE saved
            /\ saved' = flags'
            /\ phase' = "idle"
            /\ queue' = {}
            /\ pendingChg' = {}
            /\ steady' = FALSE
            /\ ext' = {}
       ELSE /\ flags' = r.flags
            /\ queue' = queue \ {h}
            /\ pendingChg' = pendingChg \cup (r.flags \ flags) \cup (flags \ r.flags)
            /\ UNCHANGED <<saved, phase, steady, ext>>
    /\ UNCHANGED <<stopping, observe>>

install_flannel_binaries_on(fetches, resources, fails) ==
    \E fetchOk \in fetches, res \in resources, failAt \in fails :
        LET r == install_flannel_binaries_body(Cur, fetchOk, res, failAt)
        IN  Invoke("install_flannel_binaries", r, r.raised)

install_flannel_service_on(ifaces, oks, outputs) ==
    \E ifaceCfg \in ifaces, routeOk \in oks, output \in outputs,
       conn \in ConnectionStrings :
        LET r == install_flannel_service_body(Cur, ifaceCfg, routeOk, output, conn)
        IN  Invoke("install_flannel_service", r, r.raised)

configure_network_on(cidrs, oks) ==
    \E cidr \in cidrs, conn \in ConnectionStrings, etcdctlOk \in oks :
        LET r == configure_network_body(Cur, cidr, conn, etcdctlOk)
        IN  Invoke("configure_network", r, r.raised)

start_flannel_service_on(oks) ==
    \E startOk \in oks :
        Invoke("start_flannel_service", start_flannel_service_body(Cur, startOk),
               ~startOk)

set_flannel_version_on(oks) ==
    \E versionOk \in oks :
        LET r == set_flannel_version_body(Cur, versionOk)
        IN  Invoke("set_flannel_version", r, r.raised)

install_flannel_binaries ==
    install_flannel_binaries_on(BOOLEAN, Resources, FailPoints)

configure_cni == Invoke("configure_cni", configure_cni_body(Cur), FALSE)

install_etcd_credentials ==
    Invoke("install_etcd_credentials", install_etcd_credentials_body(Cur), FALSE)

install_flannel_service ==
    install_flannel_service_on(IfaceValues, BOOLEAN, RouteOutputs)

configure_network == configure_network_on(CidrValues, BOOLEAN)

start_flannel_service == start_flannel_service_on(BOOLEAN)

set_available == Invoke("set_available", set_available_body(Cur), FALSE)

set_flannel_version == set_flannel_version_on(BOOLEAN)

ready == Invoke("ready", ready_body(Cur), FALSE)

halt_execution == Invoke("halt_execution", halt_execution_body(Cur), FALSE)

reset_states_and_redeploy ==
    Invoke("reset_states_and_redeploy", reset_states_and_redeploy_body(Cur), FALSE)

cleanup_deployment ==
    \E downOk \in BOOLEAN, deleteOk \in BOOLEAN :
        Invoke("cleanup_deployment", cleanup_deployment_body(Cur, downOk, deleteOk),
               FALSE)

\* the hook phase is over, in which the interface layers have brought their
\* flags to e: the first iteration of the dispatch loop tests every handler
FirstIteration(e) ==
    /\ phase = "hooks"
    /\ queue = {}
    /\ ext' = e
    /\ queue' = Matching(flags \cup e, TRUE, {})
    /\ phase' = "other"
    /\ pendingChg' = {}
    /\ UNCHANGED <<flags, saved, fs, status, etcd, running, appVersion,
                   stopping, faults, observe, done, etcdSets, cniCalls, steady>>

\* a later iteration tests the handlers that watch a changed flag
StartIteration ==
    /\ phase = "other"
    /\ queue = {}
    /\ ToInvoke # {}
    /\ queue' = ToInvoke
    /\ pendingChg' = {}
    /\ UNCHANGED <<flags, saved, ext, fs, status, etcd, running, appVersion, phase,
                   stopping, faults, observe, done, etcdSets, cniCalls, steady>>

\* the dispatch is over once an iteration finds no handler to invoke
AtEnd == phase = "other" /\ queue = {} /\ ToInvoke = {}

\* the flags are persisted and the hook ends; the relations may change
\* before the next hook
EndDispatch ==
    /\ AtEnd
    /\ phase' = "idle"
    /\ saved' = flags
    /\ pendingChg' = {}
    /\ steady' = FALSE
    /\ ext' = {}
    /\ UNCHANGED <<flags, fs, status, etcd, running, appVersion, queue,
                   stopping, faults, observe, done, etcdSets, cniCalls>>

Dispatch == \E hk \in Hooks : BeginDispatch(hk)

EnterMainPhase == \E e \in ExtStates : FirstIteration(e)

Next ==
    \/ Dispatch
    \/ install_flannel_binaries
    \/ configure_cni
    \/ install_etcd_credentials
    \/ install_flannel_service
    \/ configure_network
    \/ start_flannel_service
    \/ set_available
    \/ set_flannel_version
    \/ ready
    \/ halt_execution
    \/ reset_states_and_redeploy
    \/ cleanup_deployment
    \/ EnterMainPhase
    \/ StartIteration
    \/ EndDispatch

Spec == Init /\ [][Next]_vars

(***************************************************************************)
(* The same machine in a calm environment, where no command fails, no      *)
(* upgrade-charm or stop hook fires and the etcd relation, once seen, is   *)
(* complete; the configuration and the route output take any of their      *)
(* input values.                                                           *)
(***************************************************************************)
AllEtcd == {ETCD_CONNECTED, ETCD_TLS, ETCD_AVAILABLE}

CalmExt == { {}, AllEtcd \cup {IS_WORKER}, AllEtcd \cup {IS_MASTER} }

NoFail == Len(apps) + 1

CalmDispatch == BeginDispatch("update-status")

CalmEnterMainPhase == \E e \in CalmExt : FirstIteration(e)

Calm_install_flannel_binaries ==
    install_flannel_binaries_on({TRUE}, ValidResources, {NoFail})

Data_install_flannel_service ==
    install_flannel_service_on(IfaceInputs, {TRUE}, RouteInputs)

Data_configure_network == configure_network_on(CidrInputs, {TRUE})

Calm_start_flannel_service == start_flannel_service_on({TRUE})

Calm_set_flannel_version == set_flannel_version_on({TRUE})

NextData ==
    \/ CalmDispatch
    \/ CalmEnterMainPhase
    \/ Calm_install_flannel_binaries
    \/ configure_cni
    \/ install_etcd_credentials
    \/ Data_install_flannel_service
    \/ Data_configure_network
    \/ Calm_start_flannel_service
    \/ set_available
    \/ Calm_set_flannel_version
    \/ ready
    \/ halt_execution
    \/ StartIteration
    \/ EndDispatch

\* the lifecycle, recording the steps that have completed
SpecOrder == InitObserving({"done"}) /\ [][Next]_vars

\* the lifecycle, recording the etcdctl set invocations
SpecCalls == InitObserving({"etcdSets"}) /\ [][Next]_vars

\* the lifecycle, recording the cni.set_available calls
SpecCni == InitObserving({"cniCalls"}) /\ [][Next]_vars

SpecData == Init /\ [][NextData]_vars

(***************************************************************************)
(* Fair repeated dispatch in a good environment: the resource is valid,    *)
(* the etcd relation is complete, the unit is a master or a worker, every  *)
(* subprocess succeeds and only ordinary hooks fire.                       *)
(***************************************************************************)
LiveExt == { AllEtcd \cup {IS_WORKER}, AllEtcd \cup {IS_MASTER} }

LiveEnterMainPhase == \E e \in LiveExt : FirstIteration(e)

Calm_install_flannel_service ==
    install_flannel_service_on(IfaceValues, {TRUE}, RouteOutputs)

Calm_configure_network == configure_network_on(CidrValues, {TRUE})

NextLive ==
    \/ CalmDispatch
    \/ LiveEnterMainPhase
    \/ Calm_install_flannel_binaries
    \/ configure_cni
    \/ install_etcd_credentials
    \/ Calm_install_flannel_service
    \/ Calm_configure_network
    \/ Calm_start_flannel_service
    \/ set_available
    \/ Calm_set_flannel_version
    \/ ready
    \/ StartIteration
    \/ EndDispatch

(***************************************************************************)
(* The good environment again, with upgrade-charm and with resources that  *)
(* hold different builds of flanneld.                                      *)
(***************************************************************************)
VersionDispatch == \E hk \in {"update-status", "upgrade-charm"} : BeginDispatch(hk)

Version_install_flannel_binaries ==
    install_flannel_binaries_on({TRUE}, VersionResources, {NoFail})

NextVersion ==
    \/ VersionDispatch
    \/ LiveEnterMainPhase
    \/ reset_states_and_redeploy
    \/ Version_install_flannel_binaries
    \/ configure_cni
    \/ install_etcd_credentials
    \/ Calm_install_flannel_service
    \/ Calm_configure_network
    \/ Calm_start_flannel_service
    \/ set_available
    \/ Calm_set_flannel_version
    \/ ready
    \/ StartIteration
    \/ EndDispatch

SpecVersion == Init /\ [][NextVersion]_vars

SpecLive == InitObserving({"steady"}) /\ [][NextLive]_vars /\ WF_vars(NextLive)

(***************************************************************************)
(* Properties.                                                             *)
(***************************************************************************)
Rendered ==
    /\ SERVICE_FILE \in DOMAIN fs'
    /\ SERVICE_FILE \in DOMAIN fs => fs'[SERVICE_FILE] # fs[SERVICE_FILE]

NewlySet(flag) == flag \notin flags /\ flag \in flags'

\* C1: the flannel service is started (the daemon comes up, or
\* flannel.service.started is set) only in a step that begins with
\* flannel.binaries.installed, flannel.service.installed and
\* flannel.network.configured set and the network key present in etcd; the
\* service file is rendered and the etcd key written only in a step that
\* begins with flannel.binaries.installed and
\* flannel.etcd.credentials.installed set and etcd.available raised.
C1_Prerequisites ==
    [][ /\ (running' /\ ~running) \/ NewlySet(SERVICE_STARTED)
            => /\ {BINARIES, SERVICE_INSTALLED, NETWORK_CONFIGURED} \subseteq flags
               /\ NetworkKey \in DOMAIN etcd
        /\ Rendered \/ etcd' # etcd \/ NewlySet(SERVICE_INSTALLED)
            \/ NewlySet(NETWORK_CONFIGURED)
            => /\ {BINARIES, CREDENTIALS} \subseteq flags
               /\ ETCD_AVAILABLE \in ext ]_vars

C1_Started ==
    /\ running
    /\ SERVICE_STARTED \in flags
    /\ SERVICE_FILE \in DOMAIN fs
    /\ NetworkKey \in DOMAIN etcd

\* the seven steps, by the flag each sets on completion, in the order the
\* specification lists them
Steps == <<BINARIES, CREDENTIALS, SERVICE_INSTALLED, NETWORK_CONFIGURED,
           SERVICE_STARTED, CNI_AVAILABLE, VERSION_SET>>

\* C2, as stated: the seven steps complete for the first time in one linear
\* order, so the steps completed so far are always an initial part of
\* binaries, credentials, service file, etcd config, service start,
\* readiness, version.
C2_LinearOrder ==
    \A i, j \in 1..Len(Steps) : i < j /\ Steps[j] \in done => Steps[i] \in done

\* C2, amended: the first completions respect the partial order of the
\* decorators only.  The service file and the etcd config each come after
\* binaries and credentials, the service start after both of them, readiness
\* after the service start, and the version after the binaries.
C2_PartialOrder ==
    /\ SERVICE_INSTALLED \in done => {BINARIES, CREDENTIALS} \subseteq done
    /\ NETWORK_CONFIGURED \in done => {BINARIES, CREDENTIALS} \subseteq done
    /\ SERVICE_STARTED \in done => {SERVICE_INSTALLED, NETWORK_CONFIGURED} \subseteq done
    /\ CNI_AVAILABLE \in done => SERVICE_STARTED \in done
    /\ VERSION_SET \in done => BINARIES \in done

C2_VersionAndConfigFirst ==
    /\ {VERSION_SET, NETWORK_CONFIGURED} \subseteq done
    /\ done \cap {SERVICE_INSTALLED, SERVICE_STARTED, CNI_AVAILABLE} = {}

\* C3, as stated, its second half: once the unit has reported active, active
\* is the status at the end of every later dispatch in which neither
\* upgrade-charm nor stop fires (the resource is valid, the etcd relation
\* complete, every subprocess succeeds).
C3_StaysActive == AtEnd /\ steady => StatusState(status) = "active"

\* the inputs with which a command of a handler fails
AnyFailPoint == 0..(Len(apps) + 1)

Rejected(fetchOk, res) ==
    ~fetchOk \/ res.archive \in {PyNone, <<>>} \/ res.size < 1000000

Reported(r, flag) ==
    StatusState(r.status) \in {"blocked", "waiting"} /\ flag \notin r.flags

\* C4, as stated: whenever a step fails (the resource fetch raises, the
\* resource is missing or undersized, or tar, install, route, etcdctl or
\* flanneld -version exits with an error) the handler leaves the status
\* blocked or waiting and its completion flag unset.
C4_FailuresReported ==
    /\ "install_flannel_binaries" \in queue =>
          \A fetchOk \in BOOLEAN, res \in Resources, failAt \in AnyFailPoint :
              Rejected(fetchOk, res) \/ failAt <= Len(apps)
              => Reported(install_flannel_binaries_body(Cur, fetchOk, res, failAt),
                          BINARIES)
    /\ "install_flannel_service" \in queue =>
          \A ifaceCfg \in IfaceValues, output \in RouteOutputs,
             conn \in ConnectionStrings :
              Reported(install_flannel_service_body(Cur, ifaceCfg, FALSE, output, conn),
                       SERVICE_INSTALLED)
    /\ "configure_network" \in queue =>
          \A cidr \in CidrValues, conn \in ConnectionStrings :
              Reported(configure_network_body(Cur, cidr, conn, FALSE),
                       NETWORK_CONFIGURED)
    /\ "set_flannel_version" \in queue =>
          Reported(set_flannel_version_body(Cur, FALSE), VERSION_SET)

\* the handler ends by an exception: its flag stays unset and the status is
\* the one it had set last, a maintenance status or the status it found
Escapes(r, flag, msg) == r.raised /\ flag \notin r.flags /\ r.status = msg

\* C4, amended: only a resource that cannot be fetched, is missing or is
\* undersized is reported, as status blocked, with the flag left unset and
\* no exception.  A failing tar, install, route, etcdctl or flanneld -version
\* ends the handler by an exception: the flag stays unset, and the status
\* stays the maintenance status of the step (for etcdctl, whatever it was).
C4_FailuresBlockOrRaise ==
    /\ "install_flannel_binaries" \in queue =>
          \A fetchOk \in BOOLEAN, res \in Resources, failAt \in AnyFailPoint :
              LET r == install_flannel_binaries_body(Cur, fetchOk, res, failAt)
              IN  IF Rejected(fetchOk, res)
                  THEN /\ StatusState(r.status) = "blocked"
                       /\ BINARIES \notin r.flags
                       /\ ~r.raised
                  ELSE failAt <= Len(apps) => Escapes(r, BINARIES, MsgUnpacking)
    /\ "install_flannel_service" \in queue =>
          \A ifaceCfg \in IfaceValues, output \in RouteOutputs,
             conn \in ConnectionStrings :
              Escapes(install_flannel_service_body(Cur, ifaceCfg, FALSE, output, conn),
                      SERVICE_INSTALLED, MsgInstalling)
    /\ "configure_network" \in queue =>
          \A cidr \in CidrValues, conn \in ConnectionStrings :
              Escapes(configure_network_body(Cur, cidr, conn, FALSE),
                      NETWORK_CONFIGURED, status)
    /\ "set_flannel_version" \in queue =>
          Escapes(set_flannel_version_body(Cur, FALSE), VERSION_SET, MsgVersion)
    /\ StatusState(MsgUnpacking) = "maintenance"
    /\ StatusState(MsgInstalling) = "maintenance"
    /\ StatusState(MsgVersion) = "maintenance"

\* tar or an install has failed: the hook ended with the status of the step
C4_FailedUnpacking ==
    /\ faults > 0
    /\ phase = "idle"
    /\ status = MsgUnpacking
    /\ BINARIES \notin flags

\* C5: install_flannel_binaries accepts the resource only if it was fetched,
\* is non-empty and has a size of at least 1,000,000 bytes: then it unpacks
\* it, and sets flannel.binaries.installed once every install has succeeded.
\* Otherwise it sets a blocked status, runs no command, writes no file and
\* leaves the flag unset, so that no handler requiring the flag matches; no
\* file of an undersized resource is ever installed.
C5_ResourceCheck ==
    /\ \A p \in {UNPACK_PATH} \cup {apps[i] : i \in 1..Len(apps)} :
          p \in DOMAIN fs => fs[p] # "U"
    /\ "install_flannel_binaries" \in queue =>
          \A fetchOk \in BOOLEAN, res \in Resources, failAt \in AnyFailPoint :
              LET r == install_flannel_binaries_body(Cur, fetchOk, res, failAt)
              IN  IF Rejected(fetchOk, res)
                  THEN /\ StatusState(r.status) = "blocked"
                       /\ r.cmds = <<>>
                       /\ r.fs = fs
                       /\ BINARIES \notin r.flags
                       /\ ~r.raised
                       /\ \A h \in Handlers :
                             BINARIES \in when(h) => ~Guard(h, r.flags \cup ext)
                  ELSE /\ r.cmds # <<>>
                       /\ Head(r.cmds) = <<"tar", "xfz">>
                       /\ failAt > Len(apps)
                          => /\ BINARIES \in r.flags
                             /\ \A i \in 1..Len(apps) : r.fs[apps[i]] = res.build

\* the resource of exactly 1,000,000 bytes has been installed
C5_BoundaryInstalled ==
    /\ BINARIES \in flags
    /\ \A i \in 1..Len(apps) : apps[i] \in DOMAIN fs /\ fs[apps[i]] = "A"

\* the state a handler run leaves, as the next run finds it
Again(r) == [r EXCEPT !.raised = FALSE, !.cmds = <<>>]

SameOutcome(a, b) == a.flags = b.flags /\ a.fs = b.fs /\ a.etcd = b.etcd

\* C6: each install step is idempotent.  Running the handler of install
\* binaries (after upgrade-charm cleared its flag), configure CNI, install
\* credentials, render service file or seed etcd config a second time on the
\* same inputs leaves the flags, the files and the etcd content of the first
\* run.
C6_Idempotent ==
    /\ "install_flannel_binaries" \in queue =>
          \A fetchOk \in BOOLEAN, res \in Resources, failAt \in AnyFailPoint :
              LET r == install_flannel_binaries_body(Cur, fetchOk, res, failAt)
              IN  SameOutcome(r, install_flannel_binaries_body(
                                     reset_states_and_redeploy_body(Again(r)),
                                     fetchOk, res, failAt))
    /\ "configure_cni" \in queue =>
          LET r == configure_cni_body(Cur)
          IN  SameOutcome(r, configure_cni_body(Again(r)))
    /\ "install_etcd_credentials" \in queue =>
          LET r == install_etcd_credentials_body(Cur)
          IN  SameOutcome(r, install_etcd_credentials_body(Again(r)))
    /\ "install_flannel_service" \in queue =>
          \A ifaceCfg \in IfaceInputs, routeOk \in BOOLEAN, output \in RouteOutputs,
             conn \in ConnectionStrings :
              LET r == install_flannel_service_body(Cur, ifaceCfg, routeOk, output, conn)
              IN  SameOutcome(r, install_flannel_service_body(Again(r), ifaceCfg,
                                                              routeOk, output, conn))
    /\ "configure_network" \in queue =>
          \A cidr \in CidrValues, conn \in ConnectionStrings, etcdctlOk \in BOOLEAN :
              LET r == configure_network_body(Cur, cidr, conn, etcdctlOk)
              IN  SameOutcome(r, configure_network_body(Again(r), cidr, conn, etcdctlOk))

\* install_flannel_binaries is about to run again over its own files, after
\* upgrade-charm
C6_SecondInstall ==
    /\ "install_flannel_binaries" \in queue
    /\ VERSION_SET \in flags
    /\ \A i \in 1..Len(apps) : apps[i] \in DOMAIN fs

NoFiles(f) == \A i \in 1..Len(files) : files[i] \notin DOMAIN f

\* C7, as stated: cleanup_deployment stops the service, brings flannel.1
\* down, deletes it and then removes the known files, in that order, whether
\* or not an ip link command fails, and raises nothing; and when a stop hook
\* completes, none of the seven known files exists.
C7_StopCleansUp ==
    /\ "cleanup_deployment" \in queue =>
          \A downOk \in BOOLEAN, deleteOk \in BOOLEAN :
              LET r == cleanup_deployment_body(Cur, downOk, deleteOk)
                  k == IF downOk THEN 3 ELSE 2
              IN  /\ r.cmds[1] = <<"service", "stop", "flannel">>
                  /\ r.cmds[2] = <<"ip", "link", "set", "flannel.1", "down">>
                  /\ downOk => r.cmds[3] = <<"ip", "link", "delete", "flannel.1">>
                  /\ \A i \in (k + 1)..Len(r.cmds) : r.cmds[i][1] = "remove"
                  /\ ~r.raised
                  /\ NoFiles(r.fs)
    /\ stopping /\ AtEnd => NoFiles(fs)

\* a stop hook is about to complete on a deployed unit, and flanneld is
\* installed again
C7_ReinstalledOnStop ==
    /\ stopping
    /\ AtEnd
    /\ {BINARIES, SERVICE_INSTALLED, CREDENTIALS} \subseteq flags
    /\ FLANNELD \in DOMAIN fs
    /\ ETCD_KEY_PATH \notin DOMAIN fs

\* C8, as stated: an execution issues at most one etcdctl set.
C8_SingleSet == etcdSets <= 1

IsEtcdctlSet(cmd) == cmd = <<"etcdctl", "set">>

\* C8, amended: a run of configure_network issues at most one etcdctl set,
\* and a call is issued only by configure_network while
\* flannel.network.configured is unset: upgrade-charm causes no further
\* call, a failed call is issued again by a later dispatch.
C8_SetWhileUnconfigured ==
    [][ /\ "configure_network" \in queue =>
              \A cidr \in CidrInputs, conn \in ConnectionStrings,
                 etcdctlOk \in BOOLEAN :
                  LET r == configure_network_body(Cur, cidr, conn, etcdctlOk)
                  IN  Len(SelectSeq(r.cmds, IsEtcdctlSet)) <= 1
        /\ etcdSets' # etcdSets
            => /\ etcdSets' = etcdSets + 1
               /\ "configure_network" \in queue
               /\ NETWORK_CONFIGURED \notin flags ]_vars

\* a failed etcdctl set has been issued again, with success
C8_Retried == etcdSets = 2 /\ NETWORK_CONFIGURED \in flags /\ NetworkKey \in DOMAIN etcd

(***************************************************************************)
(* Reading a JSON document of the shape {"Network": v, "Backend": {"Type": *)
(* "vxlan"}} back: the value of Network, or Malformed.                     *)
(***************************************************************************)
Malformed == <<"malformed">>

JsonHead == <<"{", "\"", "Network", "\"", ":", " ">>

JsonTail == <<",", " ", "\"", "Backend", "\"", ":", " ", "{", "\"", "Type", "\"",
              ":", " ", "\"", "vxlan", "\"", "}", "}">>

\* the characters of a JSON string body, Malformed for a bare quote or a
\* dangling backslash
RECURSIVE JsonUnescape(_)
JsonUnescape(s) ==
    IF s = <<>> THEN <<>>
    ELSE IF Head(s) = "\"" THEN Malformed
    ELSE IF Head(s) = "\\"
         THEN IF Len(s) < 2 THEN Malformed
              ELSE LET rest == JsonUnescape(SubSeq(s, 3, Len(s)))
                   IN  IF rest = Malformed THEN Malformed ELSE <<s[2]>> \o rest
    ELSE LET rest == JsonUnescape(Tail(s))
         IN  IF rest = Malformed THEN Malformed ELSE <<Head(s)>> \o rest

NetworkOf(doc) ==
    LET n == Len(doc)
        h == Len(JsonHead)
        tl == Len(JsonTail)
        mid == SubSeq(doc, h + 1, n - tl)
    IN  IF \/ n < h + tl + 1
           \/ SubSeq(doc, 1, h) # JsonHead
           \/ SubSeq(doc, n - tl + 1, n) # JsonTail
        THEN Malformed
        ELSE IF mid = <<"null">> THEN PyNone
        ELSE IF Len(mid) >= 2 /\ mid[1] = "\"" /\ mid[Len(mid)] = "\""
             THEN JsonUnescape(SubSeq(mid, 2, Len(mid) - 1))
             ELSE Malformed

\* C9, as stated: the value configure_network writes to the network key is
\* the JSON object {Network: the cidr option, Backend: {Type: vxlan}}, for
\* every value of the option, and flannel.network.configured is set only
\* after that write succeeded.
C9_PayloadIsCidr ==
    "configure_network" \in queue =>
        \A cidr \in CidrInputs, conn \in ConnectionStrings, etcdctlOk \in BOOLEAN :
            LET r == configure_network_body(Cur, cidr, conn, etcdctlOk)
            IN  /\ NETWORK_CONFIGURED \in r.flags
                   => etcdctlOk /\ NetworkKey \in DOMAIN r.etcd
                /\ r.etcd # etcd \/ NETWORK_CONFIGURED \in r.flags
                   => /\ DOMAIN r.etcd = {NetworkKey}
                      /\ NetworkOf(r.etcd[NetworkKey]) = cidr

(***************************************************************************)
(* The default interface, read off the route output by positions: the      *)
(* lines are the stretches between newlines, the last token of a line is   *)
(* what follows its last space.                                            *)
(***************************************************************************)
Least(S) == CHOOSE x \in S : \A y \in S : x <= y

Greatest(S) == CHOOSE x \in S : \A y \in S : y <= x

LineStarts(output) ==
    {1} \cup {i + 1 : i \in {j \in 1..Len(output) : output[j] = "\n"}}

LineAt(output, a) ==
    LET ends == {j \in a..Len(output) : output[j] = "\n"}
    IN  SubSeq(output, a, IF ends = {} THEN Len(output) ELSE Least(ends) - 1)

AfterLastSpace(line) ==
    LET spaces == {j \in 1..Len(line) : line[j] = " "}
    IN  SubSeq(line, IF spaces = {} THEN 1 ELSE Greatest(spaces) + 1, Len(line))

HasDefault(line) == \E j \in 1..Len(line) : line[j] \in DefaultTokens

DefaultLines(output) == {a \in LineStarts(output) : HasDefault(LineAt(output, a))}

FirstDefaultLine(output) == LineAt(output, Least(DefaultLines(output)))

\* C10: the interface rendered into the service file is the iface option
\* when it is set and non-empty, otherwise the last space-separated token of
\* the first line of the route output that contains 'default'; when that
\* line ends in a name, the interface is that name.
C10_Interface ==
    "install_flannel_service" \in queue =>
        \A ifaceCfg \in IfaceInputs, output \in RouteInputs,
           conn \in ConnectionStrings :
            LET r == install_flannel_service_body(Cur, ifaceCfg, TRUE, output, conn)
                iface == r.fs[SERVICE_FILE].iface
            IN  /\ SERVICE_INSTALLED \in r.flags
                /\ ifaceCfg # PyNone /\ ifaceCfg # <<>> => iface = ifaceCfg
                /\ (ifaceCfg = PyNone \/ ifaceCfg = <<>>)
                   /\ DefaultLines(output) # {}
                   => LET line == FirstDefaultLine(output)
                      IN  /\ iface = AfterLastSpace(line)
                          /\ line[Len(line)] # " " => iface = <<line[Len(line)]>>

\* the service file names the interface of the first of two default lines
C10_FirstDefaultRendered ==
    /\ SERVICE_INSTALLED \in flags
    /\ SERVICE_FILE \in DOMAIN fs
    /\ fs[SERVICE_FILE].iface = <<"wlan0">>

\* the handlers of the steps other than install binaries
LaterSteps == {"install_etcd_credentials", "install_flannel_service",
               "configure_network", "start_flannel_service", "set_available",
               "set_flannel_version"}

\* C11: the upgrade-charm handler removes flannel.binaries.installed and no
\* other flag, and the hook phase changes the flags in no other way; the
\* first iteration after it invokes install_flannel_binaries, which with a
\* valid resource and no failing command installs every binary and sets the
\* flag again; and a step whose completion flag is set is never invoked.
C11_UpgradeReinstallsOnly ==
    [][ /\ "reset_states_and_redeploy" \in queue
            => reset_states_and_redeploy_body(Cur).flags = flags \ {BINARIES}
        /\ phase = "hooks" /\ flags' # flags
            => BINARIES \in flags /\ flags' = flags \ {BINARIES}
        /\ phase = "hooks" /\ phase' = "other" /\ BINARIES \notin flags
            => /\ "install_flannel_binaries" \in queue'
               /\ \A res \in GoodResources :
                    LET r == install_flannel_binaries_body(Cur, TRUE, res, NoFail)
                    IN  /\ r.flags = flags \cup {BINARIES}
                        /\ <<"tar", "xfz">> = Head(r.cmds)
                        /\ \A i \in 1..Len(apps) : r.fs[apps[i]] = res.build
        /\ \A h \in queue' \cap LaterSteps : when_not(h) \cap flags' = {} ]_vars

\* after upgrade-charm on a deployed unit only the binaries are installed again
C11_OnlyBinariesQueued ==
    /\ "install_flannel_binaries" \in queue
    /\ queue \cap LaterSteps = {}
    /\ FlannelFlags \ {BINARIES, CNI_CONFIGURED, CNI_AVAILABLE} \subseteq flags
    /\ \A i \in 1..Len(apps) : apps[i] \in DOMAIN fs

\* C12, as stated: a dispatch in which etcd.connected is unset ends with
\* status waiting, 'Waiting for etcd relation.', whatever the order of the
\* handlers.
C12_WaitingWithoutEtcd ==
    AtEnd /\ ETCD_CONNECTED \notin ext
    => status = MsgWaiting /\ StatusState(status) = "waiting"

\* a dispatch without the etcd relation ends active
C12_ActiveWithoutEtcd ==
    AtEnd /\ ~stopping /\ ETCD_CONNECTED \notin ext /\ StatusState(status) = "active"

\* C13, as stated, its count: cni.set_available is called at most once in an
\* execution.
C13_AvailableOnce == cniCalls <= 1

CniRendered ==
    /\ CNI_CONF \in DOMAIN fs'
    /\ CNI_CONF \in DOMAIN fs => fs'[CNI_CONF] # fs[CNI_CONF]

\* C13, amended: cni.set_available is called only by set_available, with
\* cni.is-worker and flannel.service.started set and flannel.cni.available
\* unset, once per run; the CNI config file is rendered only with
\* cni.is-worker set.  The call is repeated when the hook that made it fails
\* afterwards and its flag is not persisted.
C13_AvailableWhileUnset ==
    [][ /\ cniCalls' # cniCalls
            => /\ cniCalls' = cniCalls + 1
               /\ "set_available" \in queue
               /\ IS_WORKER \in ext
               /\ SERVICE_STARTED \in flags
               /\ CNI_AVAILABLE \notin flags
        /\ CniRendered \/ NewlySet(CNI_CONFIGURED) \/ NewlySet(CNI_AVAILABLE)
            => IS_WORKER \in ext ]_vars

\* cni.set_available has been called a second time
C13_CalledAgain == cniCalls = 2 /\ CNI_AVAILABLE \in flags /\ CNI_CONF \in DOMAIN fs

(***************************************************************************)
(* The version in the output of flanneld -version, read off by positions.  *)
(***************************************************************************)
AfterLast(s, tok) ==
    LET at == {j \in 1..Len(s) : s[j] = tok}
    IN  SubSeq(s, IF at = {} THEN 1 ELSE Greatest(at) + 1, Len(s))

Stripped(s) ==
    LET solid == {j \in 1..Len(s) : s[j] \notin {" ", "\n"}}
    IN  IF solid = {} THEN <<>> ELSE SubSeq(s, Least(solid), Greatest(solid))

\* C14: set_flannel_version reports the text after the last 'v' of the
\* flanneld -version output, stripped of surrounding whitespace, and sets
\* flannel.version.set, if and only if the output is non-empty; with empty
\* output it reports nothing and leaves the flag unset, and every later
\* dispatch invokes it again.
C14_VersionReported ==
    [][ /\ "set_flannel_version" \in queue /\ FLANNELD \in DOMAIN fs
            => LET r == set_flannel_version_body(Cur, TRUE)
                   output == VersionOutput(fs[FLANNELD])
               IN  /\ ~r.raised
                   /\ VERSION_SET \in r.flags <=> output # <<>>
                   /\ r.appVersion = IF output = <<>> THEN appVersion
                                     ELSE Stripped(AfterLast(output, "v"))
        /\ phase = "hooks" /\ phase' = "other"
           /\ BINARIES \in flags /\ VERSION_SET \notin flags
            => "set_flannel_version" \in queue' ]_vars

\* the version after the last of two 'v' has been reported
C14_LastVReported ==
    /\ VERSION_SET \in flags
    /\ FLANNELD \in DOMAIN fs
    /\ fs[FLANNELD] = "B"
    /\ appVersion = <<"0.7.0">>

\* C15: a dispatch that ends with status 'active' has the flannel service
\* running, also after the stop hook has stopped the service.
C15_ActiveOnlyRunning ==
    AtEnd /\ StatusState(status) = "active" => running

\* a stop dispatch ends active with the service stopped
C15_ActiveAfterStop ==
    /\ AtEnd
    /\ stopping
    /\ status = MsgActive
    /\ ~running

\* C16: every completion flag that is set is backed by its artifacts:
\* flannel.binaries.installed by /usr/local/bin/flanneld,
\* flannel.etcd.credentials.installed by the three credential files and
\* flannel.service.installed by /lib/systemd/system/flannel.service, after any
\* sequence of dispatches, upgrade-charm and stop hooks.
C16_FlagsBacked ==
    /\ BINARIES \in flags => FLANNELD \in DOMAIN fs
    /\ CREDENTIALS \in flags
        => {ETCD_KEY_PATH, ETCD_CERT_PATH, ETCD_CA_PATH} \subseteq DOMAIN fs
    /\ SERVICE_INSTALLED \in flags => SERVICE_FILE \in DOMAIN fs

\* a stop dispatch has ended with the three flags set and none of the files
C16_FlagsOutliveFiles ==
    /\ AtEnd
    /\ stopping
    /\ {BINARIES, CREDENTIALS, SERVICE_INSTALLED} \subseteq flags
    /\ {FLANNELD, ETCD_KEY_PATH, ETCD_CERT_PATH, ETCD_CA_PATH, SERVICE_FILE}
         \cap DOMAIN fs = {}

\* C17: whenever flannel.service.installed is set, the rendered service file
\* names a determined interface: the file is never rendered, with the flag
\* set, with the interface undefined (None).
C17_InterfaceDetermined ==
    SERVICE_INSTALLED \in flags /\ SERVICE_FILE \in DOMAIN fs
        => fs[SERVICE_FILE].iface # PyNone

\* the service file is installed and names no interface
C17_RenderedWithNone ==
    /\ SERVICE_INSTALLED \in flags
    /\ SERVICE_FILE \in DOMAIN fs
    /\ fs[SERVICE_FILE].iface = PyNone
    /\ running

\* the version of the flanneld binary that is installed
InstalledVersion == Stripped(AfterLast(VersionOutput(fs[FLANNELD]), "v"))

\* C18: whenever flannel.version.set and flannel.binaries.installed are both
\* set, the application version last reported equals the version of the
\* flanneld binary currently installed, also after an upgrade-charm that
\* installs a different flanneld binary.
C18_VersionCurrent ==
    /\ VERSION_SET \in flags
    /\ BINARIES \in flags
    /\ FLANNELD \in DOMAIN fs
    => appVersion = InstalledVersion

\* after an upgrade the newer binary is installed and the older version is
\* the one reported
C18_StaleVersion ==
    /\ AtEnd
    /\ VERSION_SET \in flags
    /\ BINARIES \in flags
    /\ FLANNELD \in DOMAIN fs
    /\ fs[FLANNELD] = "B"
    /\ appVersion = <<"0.5.5">>

\* the statuses install_flannel_binaries sets for a rejected resource
BlockedMessages == {m \in {MsgFetchError, MsgMissing, MsgIncomplete} :
                      StatusState(m) = "blocked"}

\* install_flannel_binaries has run in the current dispatch, has left the
\* flag unset and its blocked status is the unit's status
BlockedByInstall ==
    /\ phase = "other"
    /\ BINARIES \notin flags
    /\ "install_flannel_binaries" \notin queue
    /\ status \in BlockedMessages

\* C19: a 'blocked' status set by install_flannel_binaries stays the unit's
\* status until the end of that dispatch: no handler that runs after it in the
\* same dispatch replaces it.
C19_BlockedSurvives ==
    [][ BlockedByInstall /\ phase' = "other" => status' = status ]_vars

\* a dispatch in which the resource was rejected has ended active
C19_BlockedReplacedByActive ==
    /\ AtEnd
    /\ BINARIES \notin flags
    /\ FLANNELD \in DOMAIN fs
    /\ status = MsgActive

\* the positions of a command among the commands a handler has run
Attempts(cmds, cmd) == {i \in 1..Len(cmds) : cmds[i] = cmd}

\* C20: on the stop hook, 'ip link delete flannel.1' is attempted if and only
\* if 'ip link set flannel.1 down' succeeded; whether down fails, delete fails
\* or both succeed, the handler goes on to remove the files and raises
\* nothing, and the hook continues.
C20_DeleteIffDown ==
    [][ "cleanup_deployment" \in queue =>
          /\ \A downOk \in BOOLEAN, deleteOk \in BOOLEAN :
                LET r == cleanup_deployment_body(Cur, downOk, deleteOk)
                    downs == Attempts(r.cmds, <<"ip", "link", "set", "flannel.1", "down">>)
                    deletes == Attempts(r.cmds, <<"ip", "link", "delete", "flannel.1">>)
                    removals == {i \in 1..Len(r.cmds) : r.cmds[i][1] = "remove"}
                IN  /\ Cardinality(downs) = 1
                    /\ deletes # {} <=> downOk
                    /\ Cardinality(deletes) <= 1
                    /\ \A i \in deletes, j \in downs : j < i
                    /\ \A i \in removals, j \in downs \cup deletes : j < i
                    /\ Cardinality(removals)
                         = Cardinality({i \in 1..Len(files) : files[i] \in DOMAIN fs})
                    /\ NoFiles(r.fs)
                    /\ ~r.raised
          /\ "cleanup_deployment" \notin queue'
                => /\ phase' = "hooks"
                   /\ stopping'
                   /\ NoFiles(fs')
                   /\ ~running'
                   /\ flags' = flags ]_vars

\* the stop handler has returned on a unit that was running: the service is
\* stopped, the files are removed and the hook goes on
C20_CleanedUp ==
    /\ stopping
    /\ phase = "hooks"
    /\ queue = {}
    /\ SERVICE_STARTED \in flags
    /\ ~running
    /\ NoFiles(fs)
    /\ apps[2] \in DOMAIN fs

====
